---- MODULE Spec2Model ----
(***************************************************************************)
(* RCR_payload_jitter: the outlier classifier (identify_outliers_hybrid),  *)
(* the coverage calculator (calculate_rcr) and the orchestrator (main) of  *)
(* src/main.py, with the report renderer of src/utils/html_generator.py.   *)
(*                                                                         *)
(* Samples are sequences of small integers (byte counts).  Arithmetic on   *)
(* them is exact: a z-score comparison  |x - mean| / std >= t  is decided  *)
(* on integers after clearing the denominators, and a quotient of two      *)
(* integers is kept as a pair.  A z-score of a zero-variance sample is the *)
(* float NaN (0/0), for which every comparison is false.                   *)
(***************************************************************************)
EXTENDS Integers, Sequences, FiniteSets, TLC

\* ------------------------------------------------------------------ bounds

\* longest sample drawn for one call of the core
MaxLen == 3
\* largest byte count of a drawn sample
MaxVal == 2
\* most log files of one configuration
MaxFiles == 2
\* most IPs configured for one log file
MaxIPs == 2

\* ------------------------------------------------------- parameter values

\* z_threshold values, as exact fractions num/den (den > 0); -1 violates the
\* precondition z_threshold >= 0
ZThresholds ==
    { [num |-> 0 - 1, den |-> 1], [num |-> 0, den |-> 1], [num |-> 1, den |-> 1] }

\* min_cluster_size values (the precondition is >= 1)
MinClusterSizes == {1, 2, 3}

\* cluster_width values; -1 violates the precondition cluster_width >= 0
ClusterWidths == {0 - 1, 0, 1}

\* bucket_size values; -1 and 0 violate the precondition bucket_size > 0
BucketSizes == {0 - 1, 0, 1, 2}

\* min_bucket_count values
MinBucketCounts == {0, 1, 2}

\* Scenario B of the spec: ten values 10 and one value 1000
ScenarioB == <<10, 10, 10, 10, 10, 10, 10, 10, 10, 10, 1000>>

\* every sample of at most MaxLen values in 0..MaxVal, the empty one included
BoundedSamples == UNION { [1..n -> 0..MaxVal] : n \in 0..MaxLen }

\* a sample whose sorted candidates hold a pair and a triple of equal values
DuplicateClusters == <<0, 0, 1, 1, 1>>

Samples == BoundedSamples \cup {ScenarioB, DuplicateClusters}

\* ------------------------------------------------------------ arithmetic

RECURSIVE SeqSum(_)
SeqSum(s) == IF s = <<>> THEN 0 ELSE Head(s) + SeqSum(Tail(s))

SeqRange(s) == { s[k] : k \in DOMAIN s }

SetMin(S) == CHOOSE x \in S : \A y \in S : x <= y

SetMax(S) == CHOOSE x \in S : \A y \in S : y <= x

\* min(data), max(data) of a non-empty sequence
DataMin(d) == SetMin(SeqRange(d))

DataMax(d) == SetMax(SeqRange(d))

\* n*n times the population variance of d (ddof = 0): n*sum(x^2) - sum(x)^2
ScaledVariance(d) ==
    Len(d) * SeqSum([k \in DOMAIN d |-> d[k] * d[k]]) - SeqSum(d) * SeqSum(d)

\* ZScoreGE with the z-scores of a zero-variance sample taken as 0, not NaN
ZScoreGEZeroForConstant(d, k, t) ==
    LET n == Len(d)
        S == SeqSum(d)
        V == ScaledVariance(d)
        dev == n * d[k] - S
    IN  \/ t.num < 0
        \/ t.den * t.den * dev * dev >= t.num * t.num * V

\* np.abs(stats.zscore(data))[k] >= z_threshold.  With zero variance the
\* z-score is 0/0 = NaN and the comparison is false whatever the threshold;
\* otherwise |z| >= 0 > t for a negative t, and for t >= 0 both sides are
\* squared:  |x - S/n| / sqrt(V)/n >= num/den  iff
\* den^2 * (n*x - S)^2 >= num^2 * V   with V the scaled variance.
ZScoreGE(d, k, t) ==
    LET n == Len(d)
        S == SeqSum(d)
        V == ScaledVariance(d)
        dev == n * d[k] - S
    IN  /\ V # 0
        /\ \/ t.num < 0
           \/ t.den * t.den * dev * dev >= t.num * t.num * V

\* np.sort: the ascending sequence holding the same values, duplicates kept
RECURSIVE NpSort(_)
NpSort(s) ==
    IF s = <<>> THEN <<>>
    ELSE LET m == SetMin(SeqRange(s))
             p == CHOOSE k \in DOMAIN s : s[k] = m
             rest == [k \in 1..(Len(s) - 1) |-> IF k < p THEN s[k] ELSE s[k + 1]]
         IN  <<m>> \o NpSort(rest)

\* data[mask]: the values at the indices where the mask is true, in order
RECURSIVE Masked(_, _)
Masked(d, m) ==
    IF d = <<>> THEN <<>>
    ELSE (IF Head(m) THEN <<Head(d)>> ELSE <<>>) \o Masked(Tail(d), Tail(m))

\* ~mask
Negate(m) == [k \in DOMAIN m |-> ~m[k]]

\* np.sum of a boolean array
CountTrue(m) == Cardinality({ k \in DOMAIN m : m[k] })

\* CeilDiv on the magnitudes of a and b: the sign of bucket_size is lost
CeilDivAbs(a, b) ==
    LET x == IF a >= 0 THEN a ELSE 0 - a
        y == IF b >= 0 THEN b ELSE 0 - b
    IN  (x + y - 1) \div y

\* int(np.ceil(a / b)) for b # 0; a quotient of -0.0 (a = 0, b < 0) gives 0
CeilDiv(a, b) ==
    IF b > 0 THEN (IF a >= 0 THEN (a + b - 1) \div b ELSE 0 - ((0 - a) \div b))
    ELSE (IF a >= 0 THEN 0 - (a \div (0 - b)) ELSE ((0 - a) + (0 - b) - 1) \div (0 - b))

\* ------------------------------------------------- the classifier's pieces

\* Window with the upper bound excluded
WindowExclusive(sorted, cur, width) ==
    SelectSeq(sorted, LAMBDA v : v >= sorted[cur + 1] /\ v < sorted[cur + 1] + width)

\* cluster_points: the sorted candidates whose value lies in
\* [sorted_data[i], sorted_data[i] + cluster_width], selected by value over
\* the whole array (i is the code's 0-based cursor)
Window(sorted, cur, width) ==
    SelectSeq(sorted, LAMBDA v : v >= sorted[cur + 1] /\ v <= sorted[cur + 1] + width)

\* Rescue by index: only the first index holding each point is reclassified
RescueFirstIndex(outl, d, points) ==
    [k \in DOMAIN d |->
        IF d[k] \in SeqRange(points) /\ \A j \in 1..(k - 1) : d[j] # d[k]
        THEN FALSE ELSE outl[k]]

\* for point in cluster_points: is_outlier[data == point] = False
Rescue(outl, d, points) ==
    [k \in DOMAIN d |-> IF d[k] \in SeqRange(points) THEN FALSE ELSE outl[k]]

\* NextCursor stepping onto the last point of a rescued window
NextCursorOntoLast(cur, points, minsize) ==
    IF Len(points) >= minsize THEN cur + Len(points) - 1 ELSE cur + 1

\* the cursor after one iteration: i += len(cluster_points) on a rescue,
\* i += 1 otherwise
NextCursor(cur, points, minsize) ==
    IF Len(points) >= minsize THEN cur + Len(points) ELSE cur + 1

\* ValidRange over data[is_outlier]: the mask is not negated
ValidRangeOfOutliers(d, outl) ==
    LET valid == Masked(d, outl)
    IN  IF Len(valid) > 0 THEN <<DataMin(valid), DataMax(valid)>>
        ELSE <<DataMin(d), DataMax(d)>>

\* valid_range: (min, max) of data[~is_outlier], or of data when that is empty
ValidRange(d, outl) ==
    LET valid == Masked(d, Negate(outl))
    IN  IF Len(valid) > 0 THEN <<DataMin(valid), DataMax(valid)>>
        ELSE <<DataMin(d), DataMax(d)>>

\* ------------------------------------------------- the calculator's pieces

\* the 1-based bin of value v among `bins` equal bins over [lo, hi]: bins are
\* left-closed, the last one right-closed; numpy widens an empty range
\* lo = hi to [lo - 0.5, hi + 0.5]
BinOf(v, bins, lo, hi) ==
    IF hi = lo THEN ((bins * (2 * (v - lo) + 1)) \div 2) + 1
    ELSE IF v = hi THEN bins
    ELSE (((v - lo) * bins) \div (hi - lo)) + 1

\* np.histogram(values, bins=bins, range=(lo, hi))[0] for bins >= 1: values
\* outside [lo, hi] are not counted
Histogram(values, bins, lo, hi) ==
    [b \in 1..bins |->
        Cardinality({ k \in DOMAIN values :
            /\ values[k] >= lo
            /\ values[k] <= hi
            /\ BinOf(values[k], bins, lo, hi) = b })]

\* FilledBuckets adding up the counts of the filled bins
FilledBucketsSummed(hist, mincount) ==
    SeqSum([b \in DOMAIN hist |-> IF hist[b] >= mincount THEN hist[b] ELSE 0])

\* int(np.sum(adjusted_hist >= min_bucket_count))
FilledBuckets(hist, mincount) ==
    Cardinality({ b \in DOMAIN hist : hist[b] >= mincount })

\* (filled_buckets / total_adjusted_buckets) * 100 if total > 0 else 0, as
\* the exact fraction num/den
Rcr(filled, total) ==
    IF total > 0 THEN [num |-> filled * 100, den |-> total]
    ELSE [num |-> 0, den |-> 1]

\* ------------------------------------------------------------------ state

VARIABLES
    entry,                  \* the function called: calculate_rcr or identify_outliers_hybrid
    data,                   \* the sample
    z_threshold, min_cluster_size, cluster_width, bucket_size, min_bucket_count,
    pc,                     \* position in the call
    original_range,
    potential_outliers,
    is_outlier,
    sorted_data,
    i,                      \* the sweep's cursor (0-based)
    cluster_points,
    non_outlier_mask,
    valid_range,
    total_adjusted_buckets,
    adjusted_hist,
    result,                 \* <<>> or <<the RCRResult returned>>
    windows,                \* history: the window formed at each iteration so far
    mpc,                    \* position in main
    config,                 \* the input_data of config.json, as a sequence of log files
    f,                      \* index of the log file being processed
    results,                \* what process_log_file returned for it
    r,                      \* index of the result being evaluated
    analysis_results,
    report_written,         \* results.html has been written
    log                     \* the messages logged at level ERROR

coreVars ==
    << entry, data, z_threshold, min_cluster_size, cluster_width, bucket_size,
       min_bucket_count, pc, original_range, potential_outliers, is_outlier,
       sorted_data, i, cluster_points, non_outlier_mask, valid_range,
       total_adjusted_buckets, adjusted_hist, result, windows >>

mainVars == << mpc, config, f, results, r, analysis_results, report_written, log >>

vars == << coreVars, mainVars >>

\* the orchestrator's state while one call of the core is observed alone
MainIdle ==
    /\ mpc = "idle"
    /\ config = <<>>
    /\ f = 0
    /\ results = <<>>
    /\ r = 0
    /\ analysis_results = <<>>
    /\ report_written = FALSE
    /\ log = <<>>

\* one call of calculate_rcr(data, params), or of identify_outliers_hybrid
\* alone, with its arguments drawn and every local unassigned
Init ==
    /\ entry \in {"calculate_rcr", "identify_outliers_hybrid"}
    /\ data \in Samples
    /\ z_threshold \in ZThresholds
    /\ min_cluster_size \in MinClusterSizes
    /\ cluster_width \in ClusterWidths
    /\ bucket_size \in BucketSizes
    /\ min_bucket_count \in MinBucketCounts
    /\ pc = IF entry = "calculate_rcr" THEN "start" ELSE "classify"
    /\ original_range = <<0, 0>>
    /\ potential_outliers = <<>>
    /\ is_outlier = <<>>
    /\ sorted_data = <<>>
    /\ i = 0
    /\ cluster_points = <<>>
    /\ non_outlier_mask = <<>>
    /\ valid_range = <<0, 0>>
    /\ total_adjusted_buckets = 0
    /\ adjusted_hist = <<>>
    /\ result = <<>>
    /\ windows = <<>>
    /\ MainIdle

\* ------------------------------------------------ calculate_rcr, step by step

\* line 81: min(data), max(data); ValueError on an empty sample
OriginalRange ==
    /\ pc = "start"
    /\ IF data = <<>>
       THEN /\ pc' = "error"
            /\ UNCHANGED original_range
       ELSE /\ original_range' = <<DataMin(data), DataMax(data)>>
            /\ pc' = "classify"
    /\ UNCHANGED << entry, data, z_threshold, min_cluster_size, cluster_width,
                    bucket_size, min_bucket_count, potential_outliers, is_outlier,
                    sorted_data, i, cluster_points, non_outlier_mask, valid_range,
                    total_adjusted_buckets, adjusted_hist, result, windows >>
    /\ UNCHANGED mainVars

\* lines 45-54: the z-score candidates, and the sorted candidates if any
Classify ==
    /\ pc = "classify"
    /\ potential_outliers' = [k \in DOMAIN data |-> ZScoreGE(data, k, z_threshold)]
    /\ is_outlier' = potential_outliers'
    /\ IF CountTrue(potential_outliers') > 0
       THEN /\ sorted_data' = NpSort(Masked(data, potential_outliers'))
            /\ pc' = "sweep"
       ELSE /\ sorted_data' = <<>>
            /\ pc' = "range"
    /\ i' = 0
    /\ UNCHANGED << entry, data, z_threshold, min_cluster_size, cluster_width,
                    bucket_size, min_bucket_count, original_range, cluster_points,
                    non_outlier_mask, valid_range, total_adjusted_buckets,
                    adjusted_hist, result, windows >>
    /\ UNCHANGED mainVars

\* lines 55-66: one iteration of the sweep
SweepStep ==
    /\ pc = "sweep"
    /\ i < Len(sorted_data)
    /\ cluster_points' = Window(sorted_data, i, cluster_width)
    /\ is_outlier' = IF Len(cluster_points') >= min_cluster_size
                     THEN Rescue(is_outlier, data, cluster_points')
                     ELSE is_outlier
    /\ i' = NextCursor(i, cluster_points', min_cluster_size)
    /\ windows' = Append(windows, [cursor |-> i, points |-> cluster_points'])
    /\ UNCHANGED << entry, data, z_threshold, min_cluster_size, cluster_width,
                    bucket_size, min_bucket_count, pc, original_range,
                    potential_outliers, sorted_data, non_outlier_mask, valid_range,
                    total_adjusted_buckets, adjusted_hist, result >>
    /\ UNCHANGED mainVars

\* line 55: the loop condition fails
SweepExit ==
    /\ pc = "sweep"
    /\ ~(i < Len(sorted_data))
    /\ pc' = "range"
    /\ UNCHANGED << entry, data, z_threshold, min_cluster_size, cluster_width,
                    bucket_size, min_bucket_count, original_range,
                    potential_outliers, is_outlier, sorted_data, i, cluster_points,
                    non_outlier_mask, valid_range, total_adjusted_buckets,
                    adjusted_hist, result, windows >>
    /\ UNCHANGED mainVars

\* lines 68-74: the valid range and the mask returned; np.min of an empty
\* array raises ValueError
ReturnMask ==
    /\ pc = "range"
    /\ IF data = <<>>
       THEN /\ pc' = "error"
            /\ UNCHANGED << non_outlier_mask, valid_range >>
       ELSE /\ valid_range' = ValidRange(data, is_outlier)
            /\ non_outlier_mask' = Negate(is_outlier)
            /\ pc' = IF entry = "calculate_rcr" THEN "buckets" ELSE "returned"
    /\ UNCHANGED << entry, data, z_threshold, min_cluster_size, cluster_width,
                    bucket_size, min_bucket_count, original_range,
                    potential_outliers, is_outlier, sorted_data, i, cluster_points,
                    total_adjusted_buckets, adjusted_hist, result, windows >>
    /\ UNCHANGED mainVars

\* lines 91-95: the bucket count; a float divided by 0 raises ZeroDivisionError
TotalBuckets ==
    /\ pc = "buckets"
    /\ IF bucket_size = 0
       THEN /\ pc' = "error"
            /\ UNCHANGED total_adjusted_buckets
       ELSE /\ total_adjusted_buckets' =
                   CeilDiv(valid_range[2] - valid_range[1], bucket_size)
            /\ pc' = "histogram"
    /\ UNCHANGED << entry, data, z_threshold, min_cluster_size, cluster_width,
                    bucket_size, min_bucket_count, original_range,
                    potential_outliers, is_outlier, sorted_data, i, cluster_points,
                    non_outlier_mask, valid_range, adjusted_hist, result, windows >>
    /\ UNCHANGED mainVars

\* lines 97-99: np.histogram raises ValueError unless bins >= 1
HistogramStep ==
    /\ pc = "histogram"
    /\ IF total_adjusted_buckets < 1
       THEN /\ pc' = "error"
            /\ UNCHANGED adjusted_hist
       ELSE /\ adjusted_hist' = Histogram(Masked(data, non_outlier_mask),
                                          total_adjusted_buckets,
                                          valid_range[1], valid_range[2])
            /\ pc' = "score"
    /\ UNCHANGED << entry, data, z_threshold, min_cluster_size, cluster_width,
                    bucket_size, min_bucket_count, original_range,
                    potential_outliers, is_outlier, sorted_data, i, cluster_points,
                    non_outlier_mask, valid_range, total_adjusted_buckets, result,
                    windows >>
    /\ UNCHANGED mainVars

\* the RCRResult of lines 102-116
RCRResult(d, mask, orig, adj, total, hist, mincount) ==
    LET filled == FilledBuckets(hist, mincount)
    IN  [ rcr |-> Rcr(filled, total),
          original_range |-> orig,
          adjusted_range |-> adj,
          total_buckets |-> total,
          filled_buckets |-> filled,
          removed_outlier_count |-> CountTrue(Negate(mask)),
          outlier_mask |-> mask,
          data |-> d ]

\* lines 102-116: the filled buckets, the score and the result returned
Score ==
    /\ pc = "score"
    /\ result' = << RCRResult(data, non_outlier_mask, original_range, valid_range,
                              total_adjusted_buckets, adjusted_hist,
                              min_bucket_count) >>
    /\ pc' = "done"
    /\ UNCHANGED << entry, data, z_threshold, min_cluster_size, cluster_width,
                    bucket_size, min_bucket_count, original_range,
                    potential_outliers, is_outlier, sorted_data, i, cluster_points,
                    non_outlier_mask, valid_range, total_adjusted_buckets,
                    adjusted_hist, windows >>
    /\ UNCHANGED mainVars

Next ==
    \/ OriginalRange
    \/ Classify
    \/ SweepStep
    \/ SweepExit
    \/ ReturnMask
    \/ TotalBuckets
    \/ HistogramStep
    \/ Score

Spec == Init /\ [][Next]_vars

\* --------------------------------------------- the core as called from main

\* the sweep of lines 54-66 run to its end: is_outlier when the loop exits
RECURSIVE Sweep(_, _, _, _, _, _)
Sweep(d, sorted, cur, outl, width, minsize) ==
    IF ~(cur < Len(sorted)) THEN outl
    ELSE LET points == Window(sorted, cur, width)
         IN  Sweep(d, sorted, NextCursor(cur, points, minsize),
                   IF Len(points) >= minsize THEN Rescue(outl, d, points) ELSE outl,
                   width, minsize)

\* identify_outliers_hybrid on a non-empty sample: (~is_outlier, valid_range)
IdentifyOutliersHybrid(d, t, minsize, width) ==
    LET potential == [k \in DOMAIN d |-> ZScoreGE(d, k, t)]
        outl == IF CountTrue(potential) > 0
                THEN Sweep(d, NpSort(Masked(d, potential)), 0, potential, width, minsize)
                ELSE potential
    IN  [mask |-> Negate(outl), valid_range |-> ValidRange(d, outl)]

\* calculate_rcr(data, params): <<the RCRResult>>, or <<>> when it raises
\* (empty sample, bucket_size = 0, or fewer than one bin)
CalculateRcr(d, params) ==
    IF d = <<>> \/ params.bucket_size = 0 THEN <<>>
    ELSE LET c == IdentifyOutliersHybrid(d, params.z_threshold,
                                         params.min_cluster_size, params.cluster_width)
             total == CeilDiv(c.valid_range[2] - c.valid_range[1], params.bucket_size)
         IN  IF total < 1 THEN <<>>
             ELSE << RCRResult(d, c.mask, <<DataMin(d), DataMax(d)>>, c.valid_range,
                               total,
                               Histogram(Masked(d, c.mask), total,
                                         c.valid_range[1], c.valid_range[2]),
                               params.min_bucket_count) >>

\* ------------------------------------------------------------ the renderer

\* the keys generate_html_report reads from every result
RendererFields ==
    { "log_file", "ip", "label", "mrcr", "removed_outlier_count", "data",
      "original_range", "adjusted_range", "outlier_mask" }

\* generate_html_report(results, analysis_params): <<the report>>, or <<>> when
\* a result lacks a key it reads (KeyError)
GenerateHtmlReport(res) ==
    IF \E k \in DOMAIN res : ~(RendererFields \subseteq DOMAIN res[k]) THEN <<>>
    ELSE << [ summary_rows |->
                [k \in DOMAIN res |->
                    << res[k].log_file, res[k].ip, res[k].label, res[k].mrcr,
                       res[k].removed_outlier_count, Len(res[k].data) >>],
              detailed_sections |->
                [k \in DOMAIN res |->
                    << res[k].label, res[k].ip, res[k].log_file, res[k].mrcr,
                       res[k].original_range, res[k].adjusted_range,
                       res[k].removed_outlier_count, res[k].outlier_mask >>] ] >>

\* --------------------------------------------------------- the orchestrator

\* the defaults of identify_outliers_hybrid (z_threshold 3.0, min_cluster_size 5,
\* cluster_width 10), with bucket_size 1 and min_bucket_count 1
AnalysisParams ==
    [ z_threshold |-> [num |-> 3, den |-> 1], min_cluster_size |-> 5,
      cluster_width |-> 10, bucket_size |-> 1, min_bucket_count |-> 1 ]

\* what a log file can hold for one configured IP: the orig_ip_bytes values of
\* its rows, and whether astype(float) accepts them
IpRows ==
    { [rows |-> <<>>, numeric |-> TRUE],
      [rows |-> <<0, 1, 2>>, numeric |-> TRUE],
      [rows |-> ScenarioB, numeric |-> TRUE],
      [rows |-> <<0, 1>>, numeric |-> FALSE] }

\* a log file named in input_data: whether it exists, and its IPs in order
LogFiles ==
    [ exists : BOOLEAN, ips : UNION { [1..n -> IpRows] : n \in 0..MaxIPs } ]

\* config.json: whether it loads, and the log files of input_data in order
Configs ==
    [ loadable : BOOLEAN, input_data : UNION { [1..n -> LogFiles] : n \in 0..MaxFiles } ]

\* the core's state while main is observed
CoreIdle ==
    /\ entry = "none"
    /\ data = <<>>
    /\ z_threshold = AnalysisParams.z_threshold
    /\ min_cluster_size = AnalysisParams.min_cluster_size
    /\ cluster_width = AnalysisParams.cluster_width
    /\ bucket_size = AnalysisParams.bucket_size
    /\ min_bucket_count = AnalysisParams.min_bucket_count
    /\ pc = "idle"
    /\ original_range = <<0, 0>>
    /\ potential_outliers = <<>>
    /\ is_outlier = <<>>
    /\ sorted_data = <<>>
    /\ i = 0
    /\ cluster_points = <<>>
    /\ non_outlier_mask = <<>>
    /\ valid_range = <<0, 0>>
    /\ total_adjusted_buckets = 0
    /\ adjusted_hist = <<>>
    /\ result = <<>>
    /\ windows = <<>>

MainInit ==
    /\ CoreIdle
    /\ mpc = "load"
    /\ config \in Configs
    /\ f = 1
    /\ results = <<>>
    /\ r = 1
    /\ analysis_results = <<>>
    /\ report_written = FALSE
    /\ log = <<>>

\* process_log_file raises when the rows of some configured IP are not numeric
ProcessRaises(file) == \E k \in DOMAIN file.ips : ~file.ips[k].numeric

\* the LogFileResults of process_log_file (lines 138-157) from position k on:
\* an IP without rows is skipped
RECURSIVE ProcessLogFile(_, _, _)
ProcessLogFile(file, fname, k) ==
    IF k > Len(file.ips) THEN <<>>
    ELSE (IF Len(file.ips[k].rows) = 0 THEN <<>>
          ELSE << [ip |-> k, label |-> k, log_file |-> fname,
                   data |-> file.ips[k].rows] >>)
         \o ProcessLogFile(file, fname, k + 1)

\* lines 166-171: config.json is loaded, or the run ends with an error logged
LoadConfig ==
    /\ mpc = "load"
    /\ IF config.loadable
       THEN /\ mpc' = "files"
            /\ UNCHANGED log
       ELSE /\ mpc' = "end"
            /\ log' = Append(log, "Error loading config.json")
    /\ UNCHANGED << config, f, results, r, analysis_results, report_written >>
    /\ UNCHANGED coreVars

\* lines 180-188, 195-197: the next log file; a missing file, or one that
\* process_log_file fails on, is logged and skipped
NextFile ==
    /\ mpc = "files"
    /\ f <= Len(config.input_data)
    /\ LET file == config.input_data[f]
       IN  IF ~file.exists
           THEN /\ log' = Append(log, "Log file not found")
                /\ f' = f + 1
                /\ UNCHANGED << mpc, results, r >>
           ELSE IF ProcessRaises(file)
           THEN /\ log' = log \o <<"Error processing (process_log_file)",
                                   "Error processing (main)">>
                /\ f' = f + 1
                /\ UNCHANGED << mpc, results, r >>
           ELSE /\ results' = ProcessLogFile(file, f, 1)
                /\ r' = 1
                /\ mpc' = "results"
                /\ UNCHANGED << log, f >>
    /\ UNCHANGED << config, analysis_results, report_written >>
    /\ UNCHANGED coreVars

\* lines 190-197: one result is evaluated and appended; when calculate_rcr
\* raises, the except clause around the whole loop logs it and main goes on
\* with the next log file
EvaluateResult ==
    /\ mpc = "results"
    /\ r <= Len(results)
    /\ LET rcr_result == CalculateRcr(results[r].data, AnalysisParams)
       IN  IF rcr_result = <<>>
           THEN /\ log' = Append(log, "Error processing (main)")
                /\ f' = f + 1
                /\ mpc' = "files"
                /\ UNCHANGED << r, analysis_results >>
           ELSE /\ analysis_results' =
                       Append(analysis_results, rcr_result[1] @@ results[r])
                /\ r' = r + 1
                /\ UNCHANGED << log, f, mpc >>
    /\ UNCHANGED << config, results, report_written >>
    /\ UNCHANGED coreVars

\* line 190: the results of the log file are exhausted
ResultsDone ==
    /\ mpc = "results"
    /\ r > Len(results)
    /\ f' = f + 1
    /\ mpc' = "files"
    /\ UNCHANGED << config, results, r, analysis_results, report_written, log >>
    /\ UNCHANGED coreVars

\* line 180: the log files are exhausted
FilesDone ==
    /\ mpc = "files"
    /\ f > Len(config.input_data)
    /\ mpc' = "report"
    /\ UNCHANGED << config, f, results, r, analysis_results, report_written, log >>
    /\ UNCHANGED coreVars

\* lines 200-209: the report is rendered and then written; a failure of the
\* renderer, or an empty analysis_results, is logged and nothing is written
Report ==
    /\ mpc = "report"
    /\ IF analysis_results # <<>>
       THEN IF GenerateHtmlReport(analysis_results) # <<>>
            THEN /\ report_written' = TRUE
                 /\ UNCHANGED log
            ELSE /\ log' = Append(log, "Error generating report")
                 /\ UNCHANGED report_written
       ELSE /\ log' = Append(log, "No results to generate report")
            /\ UNCHANGED report_written
    /\ mpc' = "end"
    /\ UNCHANGED << config, f, results, r, analysis_results >>
    /\ UNCHANGED coreVars

MainNext ==
    \/ LoadConfig
    \/ NextFile
    \/ EvaluateResult
    \/ ResultsDone
    \/ FilesDone
    \/ Report

MainSpec == MainInit /\ [][MainNext]_vars

\* ------------------------------------------------------------- properties

\* the preconditions of the classifier and of the calculator
ClassifierPre ==
    /\ data # <<>>
    /\ z_threshold.num >= 0
    /\ min_cluster_size >= 1
    /\ cluster_width >= 0

CalculatorPre == ClassifierPre /\ bucket_size > 0

\* the classifier has returned its mask and range (line 74)
Classified == pc \in {"returned", "buckets", "histogram", "score", "done"}

\* the call has ended: it returned or it raised
Ended == pc \in {"returned", "done", "error"}

ZeroVariance == data # <<>> /\ \A k \in DOMAIN data : data[k] = data[1]

\* The step-by-step call and calculate_rcr as main uses it agree on the outcome.
CoreAgrees ==
    (entry = "calculate_rcr" /\ pc \in {"done", "error"}) =>
        result = CalculateRcr(data,
                     [ z_threshold |-> z_threshold, min_cluster_size |-> min_cluster_size,
                       cluster_width |-> cluster_width, bucket_size |-> bucket_size,
                       min_bucket_count |-> min_bucket_count ])

\* C1: whenever the range returned by the classifier has min = max (and the
\* preconditions hold), calculate_rcr does not raise, and the result it returns
\* has total_buckets = 0 and rcr = 0.
C1_DegenerateRangeNotError ==
    ( /\ entry = "calculate_rcr"
      /\ CalculatorPre
      /\ non_outlier_mask # <<>>
      /\ valid_range[1] = valid_range[2] ) =>
        /\ pc # "error"
        /\ pc = "done" => (result[1].total_buckets = 0 /\ result[1].rcr.num = 0)

\* C4: every result calculate_rcr returns under the preconditions has
\* 0 <= filled_buckets <= total_buckets and 0 <= rcr <= 100, with rcr = 0 when
\* total_buckets = 0; also when no point is normal.
C4_ResultInRange ==
    (entry = "calculate_rcr" /\ pc = "done" /\ CalculatorPre) =>
        LET res == result[1]
        IN  /\ 0 <= res.filled_buckets
            /\ res.filled_buckets <= res.total_buckets
            /\ res.rcr.den > 0
            /\ 0 <= res.rcr.num
            /\ res.rcr.num <= 100 * res.rcr.den
            /\ res.total_buckets = 0 => res.rcr.num = 0

\* C4's case: a result returned although the classifier left no normal point
\* and the range fell back to the full sample range
C4_Witness ==
    /\ entry = "calculate_rcr"
    /\ pc = "done"
    /\ CalculatorPre
    /\ CountTrue(non_outlier_mask) = 0
    /\ result[1].adjusted_range = result[1].original_range
    /\ result[1].filled_buckets > 0

\* C5: at every point of the classification, and in the mask returned, two
\* indices holding the same value are classified alike.
C5_ValueConsistent ==
    /\ \A j, k \in DOMAIN is_outlier :
           data[j] = data[k] => is_outlier[j] = is_outlier[k]
    /\ \A j, k \in DOMAIN non_outlier_mask :
           data[j] = data[k] => non_outlier_mask[j] = non_outlier_mask[k]

\* C5's case: a mask returned after a rescue of a value held by two indices,
\* with another candidate left an outlier
C5_Witness ==
    /\ Classified
    /\ \E w \in SeqRange(windows) : Len(w.points) >= min_cluster_size
    /\ \E j, k \in DOMAIN data :
           j # k /\ data[j] = data[k] /\ potential_outliers[j] /\ non_outlier_mask[j]
    /\ \E k \in DOMAIN data : ~non_outlier_mask[k]

\* C7: on a zero-variance sample, under the preconditions (z_threshold = 0
\* included), no point is a candidate, the mask returned is all true and the
\* range returned is (v, v).
C7_ZeroVarianceAllNormal ==
    (ZeroVariance /\ ClassifierPre) =>
        /\ \A k \in DOMAIN potential_outliers : ~potential_outliers[k]
        /\ Classified =>
             /\ \A k \in DOMAIN data : non_outlier_mask[k]
             /\ valid_range = <<data[1], data[1]>>

\* C7's case: the classifier has returned on a zero-variance sample of several
\* points with z_threshold = 0
C7_Witness ==
    /\ ZeroVariance
    /\ ClassifierPre
    /\ Len(data) >= 2
    /\ z_threshold.num = 0
    /\ pc = "returned"

\* C9: the range returned is (min, max) over the points whose mask entry is
\* true; with no normal point it is (min(sample), max(sample)); with no
\* candidate it is (min(sample), max(sample)) and the mask is all true.
C9_ValidRange ==
    Classified =>
        LET normal == { data[k] : k \in { j \in DOMAIN data : non_outlier_mask[j] } }
        IN  /\ normal # {} => valid_range = <<SetMin(normal), SetMax(normal)>>
            /\ normal = {} => valid_range = <<DataMin(data), DataMax(data)>>
            /\ (\A k \in DOMAIN data : ~potential_outliers[k]) =>
                  /\ valid_range = <<DataMin(data), DataMax(data)>>
                  /\ \A k \in DOMAIN data : non_outlier_mask[k]

\* C9's case: a mask returned with normal points and outliers, the range of
\* the normal points narrower than the sample's
C9_Witness ==
    /\ Classified
    /\ \E k \in DOMAIN data : non_outlier_mask[k]
    /\ \E k \in DOMAIN data : ~non_outlier_mask[k]
    /\ valid_range # <<DataMin(data), DataMax(data)>>

\* C6 as claimed: a call with an empty sample, a bucket_size <= 0, a negative
\* z_threshold or a negative cluster_width never returns a mask (the
\* classifier) or a result (calculate_rcr): when it ends, it ends in an error.
C6_ViolationsFailFast ==
    /\ ( /\ entry = "identify_outliers_hybrid"
         /\ (data = <<>> \/ z_threshold.num < 0 \/ cluster_width < 0) )
         => pc # "returned"
    /\ ( /\ entry = "calculate_rcr"
         /\ \/ data = <<>>
            \/ bucket_size <= 0
            \/ z_threshold.num < 0
            \/ cluster_width < 0 )
         => pc # "done"

\* C6 as amended: a call with an empty sample, and a call of calculate_rcr
\* with a bucket_size <= 0, ends in an error and returns neither a mask nor a
\* result; a negative z_threshold or cluster_width is not rejected: the
\* classifier raises on the empty sample and on nothing else.
C6_EmptyOrBadBucketFails ==
    /\ (entry = "identify_outliers_hybrid" /\ Ended) =>
           (pc = "error" <=> data = <<>>)
    /\ (entry = "calculate_rcr" /\ Ended /\ (data = <<>> \/ bucket_size <= 0)) =>
           (pc = "error" /\ result = <<>>)

\* C6's case: calculate_rcr has raised on a negative bucket_size although the
\* sample is non-empty and the range returned by the classifier is not empty
C6_Witness ==
    /\ entry = "calculate_rcr"
    /\ pc = "error"
    /\ bucket_size < 0
    /\ non_outlier_mask # <<>>
    /\ valid_range[1] < valid_range[2]

\* the window of the spec's sweep: the consecutive sorted candidates from
\* position k (1-based) on whose value lies in [sorted[start], sorted[start] + width]
RECURSIVE ScanForward(_, _, _, _)
ScanForward(sorted, start, k, width) ==
    IF k > Len(sorted) THEN <<>>
    ELSE IF ~(sorted[k] >= sorted[start] /\ sorted[k] <= sorted[start] + width) THEN <<>>
    ELSE <<sorted[k]>> \o ScanForward(sorted, start, k + 1, width)

\* the spec's window at the 0-based cursor cur
ForwardWindow(sorted, cur, width) == ScanForward(sorted, cur + 1, cur + 1, width)

\* the spec's sweep (steps 4 and 5 of the classifier), run to its end
RECURSIVE SpecSweep(_, _, _, _, _, _)
SpecSweep(d, sorted, cur, outl, width, minsize) ==
    IF cur >= Len(sorted) THEN outl
    ELSE LET w == ForwardWindow(sorted, cur, width)
         IN  IF Len(w) >= minsize
             THEN SpecSweep(d, sorted, cur + Len(w),
                            [k \in DOMAIN d |-> outl[k] /\ d[k] \notin SeqRange(w)],
                            width, minsize)
             ELSE SpecSweep(d, sorted, cur + 1, outl, width, minsize)

\* the position (0-based) of the first sorted candidate of value sorted[cur + 1]
RunStart(sorted, cur) ==
    SetMin({ k \in 0..cur : sorted[k + 1] = sorted[cur + 1] })

\* the mask is what the windows formed decide: a point is normal iff it is no
\* candidate or its value lies in a window of at least min_cluster_size
\* candidates formed at some cursor position; and it is the spec's mask
MaskAsSwept ==
    Classified =>
        /\ \A k \in DOMAIN data :
               non_outlier_mask[k] <=>
                   \/ ~potential_outliers[k]
                   \/ \E w \in SeqRange(windows) :
                          /\ Len(w.points) >= min_cluster_size
                          /\ data[k] \in SeqRange(w.points)
        /\ non_outlier_mask =
               Negate(SpecSweep(data, sorted_data, 0, potential_outliers,
                                cluster_width, min_cluster_size))

\* C8 as claimed: at every cursor position the code's window holds exactly the
\* candidates found by scanning forward from the cursor, and the mask is what
\* those windows decide.
C8_WindowIsForwardScan ==
    /\ ClassifierPre =>
           \A w \in SeqRange(windows) :
               w.points = ForwardWindow(sorted_data, w.cursor, cluster_width)
    /\ MaskAsSwept

\* C8 as amended: the code's window at a cursor is the forward scan from the
\* first candidate of the cursor's value, so it is the forward scan from the
\* cursor wherever the candidate before the cursor is smaller, as at every
\* rescue; at a cursor that follows an equal candidate it holds the earlier
\* duplicates too; the mask is the same as the spec's.
C8_WindowFromRunStart ==
    /\ \A w \in SeqRange(windows) :
           /\ w.points =
                  ForwardWindow(sorted_data, RunStart(sorted_data, w.cursor), cluster_width)
           /\ Len(w.points) >= min_cluster_size =>
                  RunStart(sorted_data, w.cursor) = w.cursor
    /\ MaskAsSwept

\* C8's case: a mask returned after the sweep formed, at a cursor that follows
\* an equal candidate, a window longer than the forward scan, and rescued at
\* another cursor
C8_Witness ==
    /\ Classified
    /\ ClassifierPre
    /\ \E w \in SeqRange(windows) :
           Len(w.points) > Len(ForwardWindow(sorted_data, w.cursor, cluster_width))
    /\ \E w \in SeqRange(windows) : Len(w.points) >= min_cluster_size

\* C10: under the preconditions every iteration of the sweep moves the cursor
\* forward, by the window length (at least 1) on a rescue and by 1 otherwise,
\* so there are never more iterations than candidates and the cursor never
\* passes the end.
C10_SweepProgress ==
    (min_cluster_size >= 1 /\ cluster_width >= 0) =>
        /\ Len(windows) <= Len(sorted_data)
        /\ i <= Len(sorted_data)
        /\ \A k \in DOMAIN windows :
               LET after == IF k < Len(windows) THEN windows[k + 1].cursor ELSE i
                   w == windows[k]
               IN  /\ Len(w.points) >= 1
                   /\ after > w.cursor
                   /\ after - w.cursor =
                          IF Len(w.points) >= min_cluster_size THEN Len(w.points) ELSE 1

\* C10's case: the sweep has ended after a rescue of a window of several
\* candidates and an iteration that moved the cursor by 1
C10_Witness ==
    /\ pc = "range"
    /\ min_cluster_size >= 2
    /\ cluster_width >= 0
    /\ \E w \in SeqRange(windows) : Len(w.points) >= min_cluster_size
    /\ \E w \in SeqRange(windows) : Len(w.points) < min_cluster_size

\* C2: at the end of a run the report has been written iff analysis_results
\* has an entry: with entries the renderer yields a report with one summary
\* row per entry and the file is written; without, nothing is written and an
\* error is logged.
C2_ReportIffResults ==
    mpc = "end" =>
        IF analysis_results # <<>>
        THEN /\ GenerateHtmlReport(analysis_results) # <<>>
             /\ Len(GenerateHtmlReport(analysis_results)[1].summary_rows)
                    = Len(analysis_results)
             /\ report_written
        ELSE /\ ~report_written
             /\ log # <<>>

\* the dataset of IP k of log file fi would be evaluated successfully alone
WouldSucceed(fi, k) ==
    LET file == config.input_data[fi]
    IN  /\ file.exists
        /\ file.ips[k].numeric
        /\ file.ips[k].rows # <<>>
        /\ CalculateRcr(file.ips[k].rows, AnalysisParams) # <<>>

\* C3: at the end of a run in which every log file could be read, every
\* dataset that would itself evaluate successfully is in analysis_results,
\* whatever the evaluation of other datasets did.
C3_FailureConfined ==
    ( /\ mpc = "end"
      /\ config.loadable
      /\ \A fi \in DOMAIN config.input_data : ~ProcessRaises(config.input_data[fi]) ) =>
        \A fi \in DOMAIN config.input_data :
            \A k \in DOMAIN config.input_data[fi].ips :
                WouldSucceed(fi, k) =>
                    \E e \in SeqRange(analysis_results) : e.log_file = fi /\ e.ip = k

====
